---- MODULE Spec2Model ----
(***************************************************************************)
(* Model of homework.py: a polling notifier that asks the homework-review  *)
(* API for the status of the latest submission and forwards changes to a   *)
(* Telegram chat.                                                          *)
(*                                                                         *)
(* Python values are tagged records [type, value] so that isinstance and   *)
(* truthiness are computed as the interpreter computes them.  TLA+ strings *)
(* are ASCII, so the Cyrillic literals of the source are transliterated    *)
(* one to one; distinct source texts stay distinct.                        *)
(***************************************************************************)
EXTENDS Integers, Sequences, FiniteSets, TLC

VARIABLES
    PRACTICUM_TOKEN,    \* os.getenv('PRACTICUM_TOKEN')
    TELEGRAM_TOKEN,     \* os.getenv('TELEGRAM_TOKEN')
    TELEGRAM_CHAT_ID,   \* os.getenv('TELEGRAM_CHAT_ID')
    heap,               \* the dict objects the two globals refer to
    current_status,     \* module global: reference to a dict
    previous_status,    \* module global: reference to a dict
    bot,                \* main's local `bot`
    timestamp,          \* main's local `timestamp`
    pc,                 \* position of the process
    log,                \* records logged by the last step
    reply,              \* what the network returned to the last GET
    cycle,              \* what the last poll cycle did
    prev1,              \* summary of the cycle before it
    ncycles,            \* poll cycles completed (saturates)
    last_attempt,       \* message of the most recent send attempt
    last_delivered      \* message of the most recent delivered send

vars == <<PRACTICUM_TOKEN, TELEGRAM_TOKEN, TELEGRAM_CHAT_ID, heap,
          current_status, previous_status, bot, timestamp, pc, log,
          reply, cycle, prev1, ncycles, last_attempt, last_delivered>>

----------------------------------------------------------------------------
(* Bounds of the model *)

\* homework names HW1 .. HW<MaxNames> occur in API responses
MaxNames == 1
\* records that follow the first one in the longer 'homeworks' lists
MaxTail == 1
\* ncycles counts up to this value and stays there
MaxCycles == 3

----------------------------------------------------------------------------
(* Python values *)

None == [type |-> "NoneType", value |-> ""]
Str(s) == [type |-> "str", value |-> s]
Dict(d) == [type |-> "dict", value |-> d]
List(s) == [type |-> "list", value |-> s]
EmptyDict == [k \in {} |-> ""]

\* q[-1]
Last(q) == q[Len(q)]

\* isinstance(v, t) for the builtin types used
isinstance(v, t) == v.type = t

\* bool(v): None, '', [] and {} are falsy
Truthy(v) ==
    CASE v.type = "NoneType" -> FALSE
      [] v.type = "str" -> v.value /= ""
      [] v.type = "list" -> Len(v.value) > 0
      [] v.type = "dict" -> DOMAIN v.value /= {}
      [] OTHER -> TRUE

\* d[k] = v on a dict value
DictSet(d, k, v) == [x \in (DOMAIN d) \cup {k} |-> IF x = k THEN v ELSE d[x]]

\* d.get(k)
DictGet(d, k) == IF k \in DOMAIN d THEN d[k] ELSE None

----------------------------------------------------------------------------
(* Exceptions *)

NoExc == [type |-> "NoException", args |-> <<>>]
Exc(t, a) == [type |-> t, args |-> a]

\* direct base class of each exception class that can occur
Base(t) ==
    CASE t = "SendingError" -> "Exception"
      [] t = "KeyError" -> "LookupError"
      [] t = "LookupError" -> "Exception"
      [] t = "TypeError" -> "Exception"
      [] t = "AttributeError" -> "Exception"
      [] t = "ConnectionError" -> "RequestException"
      [] t = "Timeout" -> "RequestException"
      [] t = "RequestException" -> "OSError"
      [] t = "OSError" -> "Exception"
      [] t = "InvalidToken" -> "TelegramError"
      [] t = "NetworkError" -> "TelegramError"
      [] t = "TelegramError" -> "Exception"
      [] t = "Exception" -> "BaseException"
      [] t = "SystemExit" -> "BaseException"
      [] OTHER -> "object"

RECURSIVE IsSubclass(_, _)
IsSubclass(t, c) ==
    IF t = c THEN TRUE
    ELSE IF t \in {"object", "NoException"} THEN FALSE
    ELSE IsSubclass(Base(t), c)

\* `except c:` matches e
Catches(c, e) == e /= NoExc /\ IsSubclass(e.type, c)

\* str(e): KeyError shows the repr of its single argument
ExcStr(e) ==
    IF Len(e.args) = 0 THEN ""
    ELSE IF IsSubclass(e.type, "KeyError") THEN "'" \o e.args[1] \o "'"
    ELSE e.args[1]

LogRec(level, msg) == [level |-> level, msg |-> msg]

----------------------------------------------------------------------------
(* Module constants *)

RETRY_PERIOD == 20
ENDPOINT == "https://practicum.yandex.ru/api/user_api/homework_statuses/"
HTTPStatus_OK == 200

HOMEWORK_VERDICTS ==
    [approved |-> "Rabota proverena: revyueru vsyo ponravilos. Ura!",
     reviewing |-> "Rabota vzyata na proverku revyuerom.",
     rejected |-> "Rabota proverena: u revyuera est zamechaniya."]

\* the text of the log record at lines 137-138 taken for the message
NO_HOMEWORK_MESSAGE_as_logged ==
    "Ot API poluchen pustoi spisok. Net domashnih zadanii na proverke"

\* the literal set at lines 139-140
NO_HOMEWORK_MESSAGE == "Net domashnih zadanii na proverke"

----------------------------------------------------------------------------
(* get_api_answer *)

\* What the network does with one GET: a response with a status code and a
\* parsed body, a connection failure, or another request-level failure.
Response(code, body) == [kind |-> "response", status_code |-> code, json |-> body]
ConnectionFailure == [kind |-> "ConnectionError", status_code |-> 0, json |-> None]
RequestFailure == [kind |-> "Timeout", status_code |-> 0, json |-> None]

\* `raise http.exceptions.HTTPError()`: the stdlib package http has no
\* attribute `exceptions`, so evaluating the operand raises AttributeError.
raise_http_error ==
    Exc("AttributeError", <<"module 'http' has no attribute 'exceptions'">>)

Result(exc, value, lg) == [exc |-> exc, value |-> value, log |-> lg]

\* without the handler of lines 105-106: the request error is raised
get_api_answer_raises(ts, net) ==
    LET raised ==
            IF net.kind = "response"
            THEN IF net.status_code /= HTTPStatus_OK
                 THEN Result(raise_http_error, None, <<>>)
                 ELSE Result(NoExc, net.json, <<>>)
            ELSE Result(Exc(net.kind, <<"request failed">>), None, <<>>)
    IN  IF Catches("ConnectionError", raised.exc)
        THEN Result(Exc("ConnectionError", <<"Connection error">>), None, <<>>)
        ELSE raised

get_api_answer(ts, net) ==
    LET raised ==
            IF net.kind = "response"
            THEN IF net.status_code /= HTTPStatus_OK
                 THEN Result(raise_http_error, None,
                        <<LogRec("ERROR",
                            "Sboi v rabote programmy: Endpoint " \o ENDPOINT
                            \o " nedostupen. Kod otveta API: "
                            \o ToString(net.status_code))>>)
                 ELSE Result(NoExc, net.json, <<>>)
            ELSE Result(Exc(net.kind, <<"request failed">>), None, <<>>)
    IN  IF Catches("ConnectionError", raised.exc)
        THEN Result(Exc("ConnectionError", <<"Connection error">>), None,
                    raised.log)
        ELSE IF Catches("RequestException", raised.exc)
        THEN Result(NoExc, None,
                    raised.log \o <<LogRec("ERROR",
                        "Request error " \o ExcStr(raised.exc))>>)
        ELSE raised

----------------------------------------------------------------------------
(* check_response *)

\* without the isinstance check of line 124
check_response_any_homeworks(response) ==
    IF ~isinstance(response, "dict")
    THEN Result(Exc("TypeError", <<"Otvet API ne yavlyaetsya slovarem">>),
                None, <<>>)
    ELSE IF "homeworks" \notin DOMAIN response.value
    THEN Result(Exc("KeyError", <<"Otvet API ne soderzhit klyuch homeworks">>),
                None, <<>>)
    ELSE Result(NoExc, response.value["homeworks"], <<>>)

check_response(response) ==
    IF ~isinstance(response, "dict")
    THEN Result(Exc("TypeError", <<"Otvet API ne yavlyaetsya slovarem">>),
                None, <<>>)
    ELSE IF "homeworks" \notin DOMAIN response.value
    THEN Result(Exc("KeyError", <<"Otvet API ne soderzhit klyuch homeworks">>),
                None, <<>>)
    ELSE IF ~isinstance(response.value["homeworks"], "list")
    THEN Result(Exc("TypeError",
                <<"Otvet API pod klyuchom \"homeworks\" ne yavlyaetsya spiskom">>),
                None, <<>>)
    ELSE Result(NoExc, response.value["homeworks"], <<>>)

----------------------------------------------------------------------------
(* parse_status *)

\* str(v) as an f-string renders it
Format(v) == IF v.type = "NoneType" THEN "None" ELSE v.value

\* the f-string without the quotes around the name
StatusMessage_unquoted(homework_name, verdict) ==
    "Izmenilsya status proverki raboty " \o Format(homework_name)
        \o ". " \o verdict

\* the f-string returned at line 171
StatusMessage(homework_name, verdict) ==
    "Izmenilsya status proverki raboty \"" \o Format(homework_name)
        \o "\". " \o verdict

\* looks the verdict up with a default instead of rejecting the status
parse_status_lenient(homework) ==
    IF "homework_name" \notin DOMAIN homework.value
    THEN Result(Exc("KeyError",
                <<"Otvet ne soderzhit klyuch \"homework_name\"">>), None, <<>>)
    ELSE
        LET homework_status == DictGet(homework.value, "status")
            verdict == IF homework_status.type = "str"
                          /\ homework_status.value \in DOMAIN HOMEWORK_VERDICTS
                       THEN HOMEWORK_VERDICTS[homework_status.value]
                       ELSE "None"
        IN  Result(NoExc,
                   Str(StatusMessage(DictGet(homework.value, "homework_name"),
                                     verdict)), <<>>)

parse_status(homework) ==
    IF "homework_name" \notin DOMAIN homework.value
    THEN Result(Exc("KeyError",
                <<"Otvet ne soderzhit klyuch \"homework_name\"">>), None, <<>>)
    ELSE
        LET homework_name == DictGet(homework.value, "homework_name")
            homework_status == DictGet(homework.value, "status")
            lg == <<LogRec("DEBUG", "Poslednyaya domashka: "
                                     \o Format(homework_name)),
                    LogRec("DEBUG", "Status poslednei domashki: "
                                     \o Format(homework_status))>>
        IN  IF ~(homework_status.type = "str"
                 /\ homework_status.value \in DOMAIN HOMEWORK_VERDICTS)
            THEN Result(Exc("KeyError",
                   <<"Neozhidannyi status domashnei raboty,obnaruzhennyi v otvete API">>),
                   None, lg)
            ELSE Result(NoExc,
                   Str(StatusMessage(homework_name,
                                     HOMEWORK_VERDICTS[homework_status.value])),
                   lg)

----------------------------------------------------------------------------
(* telegram.Bot *)

\* telegram.Bot(token=...): the constructor validates the token it is given
\* (python-telegram-bot 13, the release line that exports
\* telegram.TelegramError): iterating None raises TypeError, an empty
\* string is an InvalidToken.
Bot(token) ==
    IF token.type = "NoneType"
    THEN Result(Exc("TypeError", <<"'NoneType' object is not iterable">>),
                None, <<>>)
    ELSE IF token.value = ""
    THEN Result(Exc("InvalidToken", <<"Invalid token">>), None, <<>>)
    ELSE Result(NoExc, [type |-> "Bot", value |-> token.value], <<>>)

----------------------------------------------------------------------------
(* check_tokens *)

check_tokens ==
    LET l1 == IF ~Truthy(PRACTICUM_TOKEN)
              THEN <<LogRec("CRITICAL",
                     "Otsutstvuet obyazatelnaya peremennaya okruzheniya PRACTICUM_TOKEN")>>
              ELSE <<>>
        l2 == IF ~Truthy(TELEGRAM_TOKEN)
              THEN <<LogRec("CRITICAL",
                     "Otsutstvuet obyazatelnaya peremennaya okruzheniya TELEGRAM_TOKEN.")>>
              ELSE <<>>
        l3 == IF ~Truthy(TELEGRAM_CHAT_ID)
              THEN <<LogRec("CRITICAL",
                     "Otsutstvuet obyazatelnaya peremennaya okruzheniya TELEGRAM_CHAT_ID.")>>
              ELSE <<>>
        missing_tokens == Len(l1) + Len(l2) + Len(l3)
    IN  IF missing_tokens /= 0
        THEN Result(Exc("SystemExit", <<>>), None,
                    l1 \o l2 \o l3 \o
                    <<LogRec("CRITICAL", "Programma prinuditelno ostanovlena.")>>)
        ELSE Result(NoExc, None, <<>>)

----------------------------------------------------------------------------
(* The globals and what a poll cycle does to them *)

\* The two dict objects: current_status is only ever mutated in place;
\* previous_status is rebound to a fresh copy, after which the object it
\* referred to is garbage, so two cells are enough.
Refs == {"d1", "d2"}

\* E carries the globals through a cycle, together with what the cycle did:
\* the log records, the send attempts, the messages stored into
\* current_status['status'] and the records handed to parse_status.
Effects(h, c, p) ==
    [heap |-> h, current_status |-> c, previous_status |-> p,
     log |-> <<>>, sends |-> <<>>, composed |-> <<>>, parsed |-> <<>>]

Logged(E, lg) == [E EXCEPT !.log = @ \o lg]

\* current_status['status'] = message
SetStatus(E, message) ==
    [E EXCEPT !.heap[E.current_status] = DictSet(@, "status", message),
              !.composed = Append(@, message)]

\* the comparison left out: every composed message counts as new
StatusChanged_always(E) == TRUE

\* current_status != previous_status
StatusChanged(E) == E.heap[E.current_status] /= E.heap[E.previous_status]

\* the assignment left out: nothing is remembered
CopyStatus_forgets(E) == E

\* `previous_status = current_status` without the copy: both names refer to
\* one dict
CopyStatus_aliases(E) == [E EXCEPT !.previous_status = E.current_status]

\* previous_status = current_status.copy(): a new dict with the same items
CopyStatus(E) ==
    LET fresh == CHOOSE r \in Refs : r /= E.current_status
    IN  [E EXCEPT !.heap[fresh] = E.heap[E.current_status],
                  !.previous_status = fresh]

Outcome(E, exc, value) == [E |-> E, exc |-> exc, value |-> value]

----------------------------------------------------------------------------
(* Sequencing *)

\* `x = v` followed by the statements F(x): v is evaluated once
Bind(v, F(_)) == CHOOSE y \in {F(x) : x \in {v}} : TRUE

----------------------------------------------------------------------------
(* send_message *)

\* What the messaging API does with one send: "ok", or the name of the
\* TelegramError subclass it raises.
TgOutcomes == {"ok", "NetworkError"}

\* without the try/except: the TelegramError leaves send_message
send_message_propagates(E, b, message, tg) ==
    Bind(IF tg = "ok" THEN NoExc ELSE Exc(tg, <<"Bad Gateway">>), LAMBDA raised :
        Outcome([E EXCEPT !.sends = Append(@,
                    [chat_id |-> TELEGRAM_CHAT_ID, message |-> message,
                     delivered |-> (raised = NoExc)])],
                raised, None))

send_message(E, b, message, tg) ==
    Bind(IF tg = "ok" THEN NoExc ELSE Exc(tg, <<"Bad Gateway">>), LAMBDA raised :
    Bind([E EXCEPT !.sends = Append(@,
            [chat_id |-> TELEGRAM_CHAT_ID, message |-> message,
             delivered |-> (raised = NoExc)])], LAMBDA E1 :
        IF raised = NoExc
        THEN Outcome(Logged(E1, <<LogRec("DEBUG",
                        "Soobshchenie otpravleno v Telegram")>>), NoExc, None)
        ELSE IF Catches("TelegramError", raised)
        THEN Outcome(Logged(E1, <<LogRec("ERROR",
                        "Sboi pri otpravke soobshcheniya v Telegram: "
                        \o ExcStr(raised))>>), NoExc, None)
        ELSE Outcome(E1, raised, None)))

\* remembers the message only when the send was delivered
SendAndRemember_if_delivered(E, b, message, tg) ==
    Bind(send_message(E, b, message, tg), LAMBDA s :
        IF s.exc /= NoExc THEN s
        ELSE IF Last(s.E.sends).delivered
        THEN Outcome(CopyStatus(s.E), NoExc, None)
        ELSE Outcome(s.E, NoExc, None))

\* the send-if-changed block shared by lines 142-144, 199-201 and 214-216:
\* send, log what was sent, remember it
SendAndRemember(E, b, message, tg) ==
    Bind(send_message(E, b, message, tg), LAMBDA s :
        IF s.exc /= NoExc THEN s
        ELSE Bind(Logged(s.E, <<LogRec("DEBUG",
                    "V Telegram otpravleno: " \o Format(message) \o ".")>>),
                  LAMBDA E1 : Outcome(CopyStatus(E1), NoExc, None)))

----------------------------------------------------------------------------
(* check_homeworks *)

check_homeworks(E, b, homeworks, tg) ==
    Bind(Bot(TELEGRAM_TOKEN), LAMBDA made :
        IF made.exc /= NoExc THEN Outcome(E, made.exc, None)
        ELSE IF ~Truthy(homeworks)
        THEN
            Bind(Logged(E, <<LogRec("INFO",
                "Ot API poluchen pustoi spisok. Net domashnih zadanii na proverke")>>),
                LAMBDA E0 :
            Bind(SetStatus(E0, Str(NO_HOMEWORK_MESSAGE)), LAMBDA E1 :
                IF StatusChanged(E1)
                THEN Bind(SendAndRemember(E1, made.value,
                                          Str(NO_HOMEWORK_MESSAGE), tg),
                          LAMBDA s : IF s.exc /= NoExc THEN s
                                     ELSE Outcome(s.E, NoExc, FALSE))
                ELSE Outcome(Logged(E1,
                       <<LogRec("ERROR", "V Telegram soobshchenie ne otpravleno."),
                         LogRec("DEBUG",
                           "Status poslednei domashki ne izmenilsya posle proshloi proverki")>>),
                       NoExc, FALSE)))
        ELSE Outcome(Logged(E, <<LogRec("DEBUG", "Spisok domashek ne pustoi.")>>),
                     NoExc, TRUE))

----------------------------------------------------------------------------
(* main: one iteration of the while loop *)

START_TIMESTAMP == 1111111111

\* lines 195-206: the first homework's status, compared and sent
ReportStatus(E, b, homework, tg) ==
    Bind(parse_status(homework), LAMBDA p :
    Bind([E EXCEPT !.log = @ \o p.log, !.parsed = Append(@, homework)],
         LAMBDA E2 :
        IF p.exc /= NoExc THEN Outcome(E2, p.exc, None)
        ELSE
        Bind(Logged(E2, <<LogRec("DEBUG",
                "Izvlecheno soobshchenie o statuse poslednei domashki")>>),
             LAMBDA E2a :
        Bind(SetStatus(E2a, p.value), LAMBDA E3 :
            IF StatusChanged(E3)
            THEN SendAndRemember(E3, b, p.value, tg)
            ELSE Outcome(Logged(E3,
                   <<LogRec("INFO", "V Telegram soobshchenie ne otpravleno."),
                     LogRec("DEBUG",
                       "Status poslednei domashki ne izmenilsya posle predydushchei proverki")>>),
                   Exc("SendingError", <<>>), None)))))

\* the try body with homeworks[-1] in place of homeworks[0]
MainTry_reports_last(E, b, ts, net, tg) ==
    Bind(get_api_answer(ts, net), LAMBDA a :
    Bind(Logged(E, a.log), LAMBDA E0 :
        IF a.exc /= NoExc THEN Outcome(E0, a.exc, None)
        ELSE
        Bind(Logged(E0, <<LogRec("DEBUG", "Poluchen otvet API.")>>), LAMBDA E1 :
        Bind(check_response(a.value), LAMBDA r :
            IF r.exc /= NoExc THEN Outcome(E1, r.exc, None)
            ELSE
            Bind(check_homeworks(E1, b, r.value, tg), LAMBDA h :
                IF h.exc /= NoExc \/ ~h.value THEN Outcome(h.E, h.exc, None)
                ELSE ReportStatus(h.E, b, Last(r.value.value), tg))))))

\* the body of `try:` (lines 191-206)
MainTry(E, b, ts, net, tg) ==
    Bind(get_api_answer(ts, net), LAMBDA a :
    Bind(Logged(E, a.log), LAMBDA E0 :
        IF a.exc /= NoExc THEN Outcome(E0, a.exc, None)
        ELSE
        Bind(Logged(E0, <<LogRec("DEBUG", "Poluchen otvet API.")>>), LAMBDA E1 :
        Bind(check_response(a.value), LAMBDA r :
            IF r.exc /= NoExc THEN Outcome(E1, r.exc, None)
            ELSE
            Bind(check_homeworks(E1, b, r.value, tg), LAMBDA h :
                IF h.exc /= NoExc \/ ~h.value THEN Outcome(h.E, h.exc, None)
                ELSE ReportStatus(h.E, b, r.value.value[1], tg))))))

\* the text composed at line 210
FailureMessage(error) == "Sboi v rabote programmy " \o ExcStr(error)

\* the handler without the comparison: every failure is sent
HandleFailure_always_sends(E, b, error, tg) ==
    Bind(SetStatus(E, Str(FailureMessage(error))), LAMBDA E1 :
        SendAndRemember(E1, b, Str(FailureMessage(error)), tg))

\* the handler ending in `raise`: the error leaves the loop
HandleFailure_reraises(E, b, error, tg) ==
    Bind(SetStatus(E, Str(FailureMessage(error))), LAMBDA E1 :
        Outcome(E1, error, None))

\* the handler `except Exception as error:` (lines 210-216)
HandleFailure(E, b, error, tg) ==
    Bind(Str(FailureMessage(error)), LAMBDA message :
    Bind(Logged(E, <<LogRec("ERROR", message.value)>>), LAMBDA E0 :
    Bind(SetStatus(E0, message), LAMBDA E1 :
        IF StatusChanged(E1)
        THEN SendAndRemember(E1, b, message, tg)
        ELSE Outcome(E1, NoExc, None))))

\* try / except SendingError / except Exception (lines 190-216); `caught`
\* is the exception a handler received, exc the one that left the statement
MainCycle(E, b, ts, net, tg) ==
    Bind(MainTry(E, b, ts, net, tg), LAMBDA t :
        IF t.exc = NoExc
        THEN [E |-> t.E, exc |-> NoExc, caught |-> NoExc]
        ELSE IF Catches("SendingError", t.exc)
        THEN [E |-> Logged(t.E, <<LogRec("ERROR", ExcStr(t.exc))>>),
              exc |-> NoExc, caught |-> t.exc]
        ELSE IF Catches("Exception", t.exc)
        THEN Bind(HandleFailure(t.E, b, t.exc, tg), LAMBDA f :
                [E |-> f.E, exc |-> f.exc, caught |-> t.exc])
        ELSE [E |-> t.E, exc |-> t.exc, caught |-> NoExc])

----------------------------------------------------------------------------
(* Inputs *)

\* values os.getenv can give: unset, set to the empty string, set
EnvValues == {None, Str(""), Str("123456:token")}

Names == {"HW" \o ToString(i) : i \in 1..MaxNames}
Statuses == (DOMAIN HOMEWORK_VERDICTS) \cup {"unknown"}

\* homework records the API can put first in the list
FirstRecords ==
    {Dict([homework_name |-> Str(n), status |-> Str(s)]) : n \in Names, s \in Statuses}
    \cup {Dict([homework_name |-> Str(n)]) : n \in Names}
    \cup {Dict([status |-> Str("approved")])}

\* a record that may follow it: no name and a status outside the table
TailRecord == Dict([status |-> Str("unknown")])

\* the list holds the first record alone, or MaxTail more records after it
Tails == {<<>>, [i \in 1..MaxTail |-> TailRecord]}

Bodies ==
    {List(<<>>),
     Dict([foo |-> List(<<>>)]),
     Dict([homeworks |-> Dict(EmptyDict)]),
     Dict([homeworks |-> List(<<>>)])}
    \cup {Dict([homeworks |-> List(<<f>> \o t)]) :
            f \in FirstRecords, t \in Tails}

NetOutcomes ==
    {ConnectionFailure, RequestFailure}
    \cup {Response(c, None) : c \in {404, 500}}
    \cup {Response(HTTPStatus_OK, body) : body \in Bodies}

----------------------------------------------------------------------------
(* The process *)

NoCycle ==
    [ran |-> FALSE, from_date |-> 0,
     before |-> EmptyDict, composed |-> <<>>, sends |-> <<>>, parsed |-> <<>>,
     caught |-> NoExc]

\* what is kept of the cycle before the last one: the messages it composed
\* and its send attempts
Summary(c) == [ran |-> c.ran, composed |-> c.composed, sends |-> c.sends]

\* the globals of lines 48-49 preset to the 'no homework' message
Init_preset ==
    /\ PRACTICUM_TOKEN \in EnvValues
    /\ TELEGRAM_TOKEN \in EnvValues
    /\ TELEGRAM_CHAT_ID \in EnvValues
    /\ heap = [r \in Refs |-> [status |-> Str(NO_HOMEWORK_MESSAGE)]]
    /\ current_status = "d1"
    /\ previous_status = "d2"
    /\ bot = None
    /\ timestamp = 0
    /\ pc = "main"
    /\ log = <<>>
    /\ reply = ConnectionFailure
    /\ cycle = NoCycle
    /\ prev1 = Summary(NoCycle)
    /\ ncycles = 0
    /\ last_attempt = None
    /\ last_delivered = None

Init ==
    /\ PRACTICUM_TOKEN \in EnvValues
    /\ TELEGRAM_TOKEN \in EnvValues
    /\ TELEGRAM_CHAT_ID \in EnvValues
    /\ heap = [r \in Refs |-> EmptyDict]
    /\ current_status = "d1"
    /\ previous_status = "d2"
    /\ bot = None
    /\ timestamp = 0
    /\ pc = "main"
    /\ log = <<>>
    /\ reply = ConnectionFailure
    /\ cycle = NoCycle
    /\ prev1 = Summary(NoCycle)
    /\ ncycles = 0
    /\ last_attempt = None
    /\ last_delivered = None

\* main, lines 184-186: build the bot, set the timestamp, log the start
MainInit ==
    /\ pc = "main"
    /\ LET made == Bot(TELEGRAM_TOKEN)
       IN  IF made.exc /= NoExc
           THEN /\ pc' = "crashed"
                /\ log' = <<>>
                /\ UNCHANGED <<bot, timestamp>>
           ELSE /\ pc' = "check_tokens"
                /\ bot' = made.value
                /\ timestamp' = START_TIMESTAMP
                /\ log' = <<LogRec("DEBUG", "Bot zapushchen")>>
    /\ UNCHANGED <<PRACTICUM_TOKEN, TELEGRAM_TOKEN, TELEGRAM_CHAT_ID, heap,
                   current_status, previous_status, reply, cycle, prev1,
                   ncycles, last_attempt, last_delivered>>

\* main, lines 187-188: check_tokens() either exits the process or returns
CheckTokens ==
    /\ pc = "check_tokens"
    /\ LET c == check_tokens
       IN  IF c.exc /= NoExc
           THEN /\ pc' = "exited"
                /\ log' = c.log
           ELSE /\ pc' = "poll"
                /\ log' = c.log \o <<LogRec("DEBUG", "Tokeny provereny")>>
    /\ UNCHANGED <<PRACTICUM_TOKEN, TELEGRAM_TOKEN, TELEGRAM_CHAT_ID, heap,
                   current_status, previous_status, bot, timestamp, reply,
                   cycle, prev1, ncycles, last_attempt, last_delivered>>

IsDelivered(s) == s.delivered

\* the message of the last send attempt among `sends`, else `old`
LastAttempt(sends, old) ==
    IF Len(sends) = 0 THEN old ELSE Last(sends).message

\* the message of the last delivered send among `sends`, else `old`
LastDelivered(sends, old) ==
    LastAttempt(SelectSeq(sends, IsDelivered), old)

\* main, lines 190-216: one poll cycle, up to the sleep
PollCycle ==
    /\ pc = "poll"
    /\ \E net \in NetOutcomes, tg \in TgOutcomes :
         /\ reply' = net
         /\ \E m \in {MainCycle(Effects(heap, current_status, previous_status),
                                  bot, timestamp, net, tg)} :
             /\ heap' = m.E.heap
             /\ current_status' = m.E.current_status
             /\ previous_status' = m.E.previous_status
             /\ log' = m.E.log
             /\ cycle' = [ran |-> TRUE,
                          from_date |-> timestamp,
                          before |-> heap[previous_status],
                          composed |-> m.E.composed, sends |-> m.E.sends,
                          parsed |-> m.E.parsed, caught |-> m.caught]
             /\ last_attempt' = LastAttempt(m.E.sends, last_attempt)
             /\ last_delivered' = LastDelivered(m.E.sends, last_delivered)
             /\ pc' = IF m.exc /= NoExc THEN "crashed" ELSE "sleep"
    /\ prev1' = Summary(cycle)
    /\ ncycles' = IF ncycles < MaxCycles THEN ncycles + 1 ELSE ncycles
    /\ UNCHANGED <<PRACTICUM_TOKEN, TELEGRAM_TOKEN, TELEGRAM_CHAT_ID, bot,
                   timestamp>>

\* the sleep followed by `timestamp += RETRY_PERIOD`
Sleep_advances ==
    /\ pc = "sleep"
    /\ pc' = "poll"
    /\ log' = <<>>
    /\ timestamp' = timestamp + RETRY_PERIOD
    /\ UNCHANGED <<PRACTICUM_TOKEN, TELEGRAM_TOKEN, TELEGRAM_CHAT_ID, heap,
                   current_status, previous_status, bot, reply,
                   cycle, prev1, ncycles, last_attempt, last_delivered>>

\* main, line 217: time.sleep(RETRY_PERIOD), then the next iteration
Sleep ==
    /\ pc = "sleep"
    /\ pc' = "poll"
    /\ log' = <<>>
    /\ UNCHANGED <<PRACTICUM_TOKEN, TELEGRAM_TOKEN, TELEGRAM_CHAT_ID, heap,
                   current_status, previous_status, bot, timestamp, reply,
                   cycle, prev1, ncycles, last_attempt, last_delivered>>

Next == MainInit \/ CheckTokens \/ PollCycle \/ Sleep

Spec == Init /\ [][Next]_vars

\* Control moves on: the calls a cycle makes return and the sleep ends.
\* Stated on pc alone, so that it constrains no other variable.
Advance ==
    \/ pc = "poll" /\ pc' \in {"sleep", "crashed"}
    \/ pc = "sleep" /\ pc' = "poll"

FairSpec == Spec /\ WF_pc(Advance)

----------------------------------------------------------------------------
(* Properties *)

\* the notification state: the dict previous_status refers to
NotificationState == heap[previous_status]

\* the notification state that holds message m
Holding(m) == [status |-> m]

NoHomework == Str(NO_HOMEWORK_MESSAGE)

\* every verdict message parse_status can return for the names in use
StatusMessages ==
    {Str(StatusMessage(Str(n), HOMEWORK_VERDICTS[s])) :
        n \in Names, s \in DOMAIN HOMEWORK_VERDICTS}

\* the messages of the send attempts of a cycle
Sent(c) == [i \in DOMAIN c.sends |-> c.sends[i].message]

\* C1: when the message a cycle composes (a status message or the 'no
\* homework' message) equals the message the cycle before it sent, the cycle
\* sends nothing; on the non-empty path the duplicate raises SendingError,
\* which is logged and leads to no failure message and no send.
C1_Idempotence ==
    (/\ cycle.ran /\ prev1.ran
     /\ Len(prev1.sends) > 0 /\ Len(cycle.composed) > 0
     /\ cycle.composed[1] = Last(prev1.sends).message
     /\ cycle.composed[1] \in StatusMessages \cup {NoHomework})
    => /\ cycle.sends = <<>>
       /\ cycle.composed = <<Last(prev1.sends).message>>
       /\ pc \in {"sleep", "poll"}
       /\ cycle.composed[1] = NoHomework => cycle.caught = NoExc
       /\ cycle.composed[1] \in StatusMessages =>
            /\ cycle.caught = Exc("SendingError", <<>>)
            /\ pc = "sleep" => Last(log) = LogRec("ERROR", "")

C1_Witness ==
    /\ cycle.ran /\ prev1.ran
    /\ Len(prev1.sends) = 1
    /\ prev1.sends[1].message \in StatusMessages
    /\ cycle.composed = <<prev1.sends[1].message>>
    /\ cycle.sends = <<>>
    /\ cycle.caught.type = "SendingError"

\* C2: a cycle whose composed message differs from the notification state
\* attempts one send of that message and leaves the notification state
\* holding it; so a message sent earlier is sent again once a different
\* message was sent in between.
C2_SendOnChange ==
    (cycle.ran /\ Len(cycle.composed) > 0) =>
        LET m == Last(cycle.composed)
        IN  /\ Holding(m) /= cycle.before =>
                /\ Sent(cycle) = <<m>>
                /\ NotificationState = Holding(m)
            /\ (Len(prev1.sends) > 0 /\ Last(prev1.sends).message /= m) =>
                Sent(cycle) = <<m>>

\* A was delivered, then B was attempted, then A is sent again
C2_Witness ==
    /\ cycle.ran /\ prev1.ran
    /\ Len(prev1.sends) = 1 /\ Len(cycle.sends) = 1
    /\ ~prev1.sends[1].delivered /\ ~cycle.sends[1].delivered
    /\ cycle.sends[1].message \in StatusMessages
    /\ cycle.sends[1].message /= prev1.sends[1].message
    /\ last_delivered = cycle.sends[1].message

\* the exception the steps of a cycle raise for what the network returned
\* in it: from the API call, else the validation, else the extraction
StepError(net, ts) ==
    LET a == get_api_answer(ts, net)
        r == check_response(a.value)
    IN  IF a.exc /= NoExc THEN a.exc
        ELSE IF r.exc /= NoExc THEN r.exc
        ELSE IF Len(r.value.value) = 0 THEN NoExc
        ELSE parse_status(r.value.value[1]).exc

\* C3: when a step of the cycle raises, the cycle composes the failure
\* message with the error text and sends it exactly when it differs from
\* the notification state; a failure repeated with the same text in the
\* next cycle is not sent again.
C3_FailurePath ==
    (cycle.ran /\ StepError(reply, cycle.from_date) /= NoExc) =>
        LET error == StepError(reply, cycle.from_date)
            m == Str("Sboi v rabote programmy " \o ExcStr(error))
        IN  /\ cycle.caught = error
            /\ cycle.composed = <<m>>
            /\ Sent(cycle) = (IF Holding(m) /= cycle.before THEN <<m>> ELSE <<>>)
            /\ NotificationState = Holding(m)
            /\ (prev1.ran /\ prev1.composed = <<m>>) => cycle.sends = <<>>

C3_Witness ==
    /\ cycle.ran /\ prev1.ran
    /\ reply = ConnectionFailure
    /\ prev1.composed = <<Str("Sboi v rabote programmy Connection error")>>
    /\ Len(prev1.sends) = 1
    /\ cycle.composed = prev1.composed
    /\ cycle.sends = <<>>

\* C4: once the credential check has passed the loop never ends: every
\* cycle reaches the sleep and every sleep is followed by another request.
C4_LoopForever ==
    /\ (pc = "poll") ~> (pc = "sleep")
    /\ (pc = "sleep") ~> (pc = "poll")
    /\ [][(pc \in {"poll", "sleep"}) => (pc' \in {"poll", "sleep"})]_vars
    /\ [](pc \in {"poll", "sleep"} => ENABLED Next)

\* a cycle whose failure notification was not delivered is at the sleep
C4_Witness ==
    /\ pc = "sleep" /\ ncycles >= 2
    /\ cycle.caught /= NoExc /\ cycle.caught.type /= "SendingError"
    /\ Len(cycle.sends) = 1 /\ ~cycle.sends[1].delivered

\* the credentials that are missing or empty
MissingCredentials ==
    {c \in {"PRACTICUM_TOKEN", "TELEGRAM_TOKEN", "TELEGRAM_CHAT_ID"} :
        ~Truthy(CASE c = "PRACTICUM_TOKEN" -> PRACTICUM_TOKEN
                  [] c = "TELEGRAM_TOKEN" -> TELEGRAM_TOKEN
                  [] OTHER -> TELEGRAM_CHAT_ID)}

IsCritical(r) == r.level = "CRITICAL"

\* C5: with any credential missing or empty the process logs one critical
\* message per missing credential and exits before the poll loop, with no
\* request and no send; with all three present it enters the poll loop.
C5_CredentialCheck ==
    (pc \notin {"main", "check_tokens"}) =>
        IF MissingCredentials /= {}
        THEN /\ pc = "exited"
             /\ Len(SelectSeq(log, IsCritical)) >= Cardinality(MissingCredentials)
             /\ ~cycle.ran /\ last_attempt = None
        ELSE pc \in {"poll", "sleep"}

\* the runs of one cycle that differ only in whether the messaging API
\* accepts or fails the send
CycleWith(net, tg) ==
    MainCycle(Effects(heap, current_status, previous_status), bot, timestamp,
              net, tg)

MessagesOf(sends) == [i \in DOMAIN sends |-> sends[i].message]

\* C6: a failure of the messaging API never leaves send_message: the cycle
\* goes on exactly as after a delivered send (same notification state, same
\* handler, same composed message) and makes no second attempt.
C6_SendNeverRaises ==
    /\ cycle.ran => pc \in {"poll", "sleep"}
    /\ (cycle.ran /\ Len(cycle.sends) > 0 /\ ~cycle.sends[1].delivered) =>
            /\ Len(cycle.sends) = 1
            /\ cycle.composed = <<cycle.sends[1].message>>
            /\ cycle.caught = StepError(reply, cycle.from_date)
            /\ NotificationState = Holding(cycle.sends[1].message)
    /\ pc = "poll" =>
        \A net \in NetOutcomes :
            LET ok == CycleWith(net, "ok")
                failed == CycleWith(net, "NetworkError")
            IN  /\ failed.exc = NoExc /\ ok.exc = NoExc
                /\ failed.caught = ok.caught
                /\ failed.E.heap = ok.E.heap
                /\ failed.E.previous_status = ok.E.previous_status
                /\ failed.E.composed = ok.E.composed
                /\ MessagesOf(failed.E.sends) = MessagesOf(ok.E.sends)

C6_Witness ==
    /\ cycle.ran /\ pc = "sleep"
    /\ Len(cycle.sends) = 1 /\ ~cycle.sends[1].delivered
    /\ cycle.sends[1].message \in StatusMessages
    /\ cycle.caught = NoExc
    /\ NotificationState = Holding(cycle.sends[1].message)

\* C7 as stated: at every cycle boundary the notification state is empty or
\* holds the message of the most recent send that was delivered.
C7_HoldsLastDelivered ==
    /\ pc = "main" => NotificationState = EmptyDict
    /\ pc \in {"poll", "sleep"} =>
        \/ NotificationState = EmptyDict
        \/ NotificationState = Holding(last_delivered)

\* C7 as amended: the notification state is empty at process start and until
\* the first send attempt; from then on it holds, at every cycle boundary,
\* the message of the most recent send attempt, delivered or not.
C7_HoldsLastAttempt ==
    /\ pc = "main" => NotificationState = EmptyDict
    /\ pc \in {"poll", "sleep"} =>
        IF last_attempt = None
        THEN NotificationState = EmptyDict
        ELSE NotificationState = Holding(last_attempt)

\* the last attempt failed after an earlier, different message was delivered
C7_Witness ==
    /\ pc = "sleep" /\ cycle.ran
    /\ Len(cycle.sends) = 1 /\ ~cycle.sends[1].delivered
    /\ last_delivered /= None /\ last_delivered /= last_attempt
    /\ NotificationState = Holding(last_attempt)

\* C8: a non-OK HTTP status makes get_api_answer log the endpoint and the
\* status code and fail with an HTTP-error condition, distinct from the
\* connection-error condition; the loop composes a failure message for it
\* whose text differs from the one for a body without the 'homeworks' key.
C8_HttpErrorCondition ==
    (cycle.ran /\ reply.kind = "response" /\ reply.status_code /= 200) =>
        /\ IsSubclass(cycle.caught.type, "HTTPError")
        /\ ~IsSubclass(cycle.caught.type, "ConnectionError")
        /\ cycle.composed = <<Str(FailureMessage(cycle.caught))>>
        /\ cycle.composed[1] /=
             Str("Sboi v rabote programmy 'Otvet API ne soderzhit klyuch homeworks'")
        /\ pc = "sleep" =>
             log[1] = LogRec("ERROR", "Sboi v rabote programmy: Endpoint "
                        \o ENDPOINT \o " nedostupen. Kod otveta API: "
                        \o ToString(reply.status_code))

\* the verdict texts of lines 43-45, written out
VerdictText(s) ==
    CASE s = "approved" -> "Rabota proverena: revyueru vsyo ponravilos. Ura!"
      [] s = "reviewing" -> "Rabota vzyata na proverku revyuerom."
      [] s = "rejected" -> "Rabota proverena: u revyuera est zamechaniya."

Homework(n, s) == Dict([homework_name |-> Str(n), status |-> Str(s)])

\* C9: for a record with name N and a status of the table, parse_status
\* returns 'Izmenilsya status proverki raboty "N". ' followed by the verdict
\* of that status; the response with the single record HW1/rejected passes
\* check_response and the cycle composes the rejected verdict for HW1.
C9_StatusMessage ==
    /\ \A n \in Names, s \in {"approved", "reviewing", "rejected"} :
          LET p == parse_status(Homework(n, s))
          IN  /\ p.exc = NoExc
              /\ p.value = Str("Izmenilsya status proverki raboty \"" \o n
                               \o "\". " \o VerdictText(s))
    /\ (cycle.ran /\ Len(cycle.parsed) = 1
        /\ cycle.parsed[1] \in {Homework(n, s) :
               n \in Names, s \in {"approved", "reviewing", "rejected"}}) =>
          cycle.composed =
            <<Str("Izmenilsya status proverki raboty \""
                  \o cycle.parsed[1].value.homework_name.value \o "\". "
                  \o VerdictText(cycle.parsed[1].value.status.value))>>
    /\ (cycle.ran /\ reply = Response(200,
            Dict([homeworks |-> List(<<Homework("HW1", "rejected")>>)]))) =>
          /\ cycle.parsed = <<Homework("HW1", "rejected")>>
          /\ cycle.caught.type \in {"NoException", "SendingError"}
          /\ cycle.composed = <<Str(
               "Izmenilsya status proverki raboty \"HW1\". Rabota proverena: u revyuera est zamechaniya.")>>

C9_Witness ==
    /\ cycle.ran
    /\ reply = Response(200,
            Dict([homeworks |-> List(<<Homework("HW1", "rejected")>>)]))
    /\ Len(cycle.sends) = 1
    /\ cycle.sends[1].message = Str(
         "Izmenilsya status proverki raboty \"HW1\". Rabota proverena: u revyuera est zamechaniya.")

HasName(hw) == "homework_name" \in DOMAIN hw.value
HasKnownStatus(hw) ==
    /\ "status" \in DOMAIN hw.value
    /\ hw.value.status.value \in {"approved", "reviewing", "rejected"}

MissingNameError ==
    Exc("KeyError", <<"Otvet ne soderzhit klyuch \"homework_name\"">>)
UnexpectedStatusError ==
    Exc("KeyError",
        <<"Neozhidannyi status domashnei raboty,obnaruzhennyi v otvete API">>)

\* C10: parse_status returns a message only for a record with a name and a
\* status of the table; without the name it fails with the missing-key
\* error, with the name and an absent or unknown status it fails with the
\* unexpected-status error; such a cycle composes a failure message and no
\* status message.
C10_RejectsBadRecords ==
    /\ \A hw \in FirstRecords \cup {TailRecord, Dict(EmptyDict)} :
          LET p == parse_status(hw)
          IN  /\ ~HasName(hw) => (p.exc = MissingNameError /\ p.value = None)
              /\ (HasName(hw) /\ ~HasKnownStatus(hw)) =>
                    (p.exc = UnexpectedStatusError /\ p.value = None)
              /\ p.value /= None =>
                    (HasName(hw) /\ HasKnownStatus(hw) /\ p.exc = NoExc)
    /\ (cycle.ran /\ Len(cycle.parsed) = 1
        /\ ~(HasName(cycle.parsed[1]) /\ HasKnownStatus(cycle.parsed[1]))) =>
          /\ cycle.caught = (IF HasName(cycle.parsed[1])
                             THEN UnexpectedStatusError ELSE MissingNameError)
          /\ cycle.composed =
               <<Str("Sboi v rabote programmy '" \o cycle.caught.args[1] \o "'")>>
          /\ \A i \in DOMAIN cycle.sends :
               cycle.sends[i].message \notin StatusMessages

C10_Witness ==
    /\ cycle.ran
    /\ cycle.parsed = <<Homework("HW1", "unknown")>>
    /\ cycle.caught = UnexpectedStatusError
    /\ Len(cycle.sends) = 1
    /\ cycle.sends[1].message = Str(
         "Sboi v rabote programmy 'Neozhidannyi status domashnei raboty,obnaruzhennyi v otvete API'")

\* the list check_response hands to main for what the network returned, or
\* None when the API call or the validation raised
Validated(net, ts) ==
    LET a == get_api_answer(ts, net)
        r == check_response(a.value)
    IN  IF a.exc /= NoExc \/ r.exc /= NoExc THEN None ELSE r.value

EmptyListResponse == Response(200, Dict([homeworks |-> List(<<>>)]))

\* C11: a cycle whose validated homework list is empty composes exactly the
\* text 'Net domashnih zadanii na proverke', whatever the notification state
\* was before it, and hands no record to parse_status.
C11_EmptyList ==
    /\ (cycle.ran /\ Validated(reply, cycle.from_date) = List(<<>>)) =>
          /\ cycle.composed = <<Str("Net domashnih zadanii na proverke")>>
          /\ cycle.parsed = <<>>
          /\ cycle.caught = NoExc
    /\ pc = "poll" =>
          \A tg \in TgOutcomes :
              \A m \in {CycleWith(EmptyListResponse, tg)} :
                  /\ m.E.composed = <<Str("Net domashnih zadanii na proverke")>>
                  /\ m.E.parsed = <<>>
                  /\ m.E.heap[m.E.current_status]
                       = Holding(Str("Net domashnih zadanii na proverke"))

\* the empty list arrives after a status message was sent
C11_Witness ==
    /\ cycle.ran /\ reply = EmptyListResponse
    /\ cycle.before \in {Holding(m) : m \in StatusMessages}
    /\ cycle.parsed = <<>>
    /\ Sent(cycle) = <<Str("Net domashnih zadanii na proverke")>>

\* C12: a failed delivery is not retried.  A cycle that composes the message
\* of the most recent send attempt makes no send and delivers nothing,
\* whether that attempt was delivered or failed and on whichever path the
\* message is composed; so after a failed attempt the message stays
\* undelivered for as long as the cycles compose it again.
C12_NoRetry ==
    /\ []((cycle.ran /\ prev1.ran /\ Len(prev1.sends) > 0
           /\ ~Last(prev1.sends).delivered
           /\ Last(cycle.composed) = Last(prev1.sends).message) =>
              cycle.sends = <<>>)
    /\ []((cycle.ran /\ prev1.ran /\ cycle.composed = prev1.composed) =>
              cycle.sends = <<>>)
    /\ [][(pc = "poll" /\ last_attempt /= None
           /\ cycle'.composed = <<last_attempt>>) =>
              (cycle'.sends = <<>> /\ last_delivered' = last_delivered)]_vars

\* the status message whose only send attempt failed is composed again
C12_Witness ==
    /\ cycle.ran /\ prev1.ran
    /\ Len(prev1.sends) = 1 /\ ~prev1.sends[1].delivered
    /\ prev1.sends[1].message \in StatusMessages
    /\ cycle.composed = <<prev1.sends[1].message>>
    /\ cycle.sends = <<>>
    /\ last_delivered /= prev1.sends[1].message

\* values get_api_answer can hand to check_response: every body the API
\* sends, no value at all, and JSON documents of other shapes
ResponseValues ==
    Bodies \cup {None, Str("homeworks"), List(<<Str("homeworks")>>),
                 Dict(EmptyDict),
                 Dict([homeworks |-> None]),
                 Dict([homeworks |-> Str("HW1")]),
                 Dict([homeworks |-> List(<<>>), current_date |-> Str("0")])}

NotAMappingError == Exc("TypeError", <<"Otvet API ne yavlyaetsya slovarem">>)
NoHomeworksKeyError ==
    Exc("KeyError", <<"Otvet API ne soderzhit klyuch homeworks">>)
NotAListError ==
    Exc("TypeError",
        <<"Otvet API pod klyuchom \"homeworks\" ne yavlyaetsya spiskom">>)

\* what C13 says check_response does with v, the checks taken in order
ExpectedCheck(v) ==
    IF v.type /= "dict" THEN [exc |-> NotAMappingError, value |-> None]
    ELSE IF "homeworks" \notin DOMAIN v.value
    THEN [exc |-> NoHomeworksKeyError, value |-> None]
    ELSE IF v.value.homeworks.type /= "list"
    THEN [exc |-> NotAListError, value |-> None]
    ELSE [exc |-> NoExc, value |-> v.value.homeworks]

\* C13: check_response fails with the type error when its input is not a
\* mapping, else with the key error when 'homeworks' is absent, else with
\* the type error when the value at 'homeworks' is not a list, and otherwise
\* returns the value at 'homeworks' unchanged; a cycle whose API call
\* returned such a body is handled accordingly.
C13_CheckOrder ==
    /\ \A v \in ResponseValues :
          /\ check_response(v).exc = ExpectedCheck(v).exc
          /\ check_response(v).value = ExpectedCheck(v).value
    /\ (cycle.ran /\ reply.kind = "response"
        /\ reply.status_code = HTTPStatus_OK) =>
          IF ExpectedCheck(reply.json).exc /= NoExc
          THEN /\ cycle.caught = ExpectedCheck(reply.json).exc
               /\ cycle.parsed = <<>>
          ELSE /\ cycle.caught /= NotAMappingError
               /\ cycle.caught /= NoHomeworksKeyError
               /\ cycle.caught /= NotAListError
               /\ cycle.parsed =
                    (IF Len(reply.json.value.homeworks.value) = 0 THEN <<>>
                     ELSE <<reply.json.value.homeworks.value[1]>>)

\* a body whose 'homeworks' is a mapping was rejected as not a list
C13_Witness ==
    /\ cycle.ran
    /\ reply = Response(200, Dict([homeworks |-> Dict(EmptyDict)]))
    /\ cycle.caught = NotAListError
    /\ Sent(cycle) = <<Str("Sboi v rabote programmy Otvet API pod klyuchom \"homeworks\" ne yavlyaetsya spiskom")>>

C15_SameTimestamp ==
    /\ pc \in {"check_tokens", "exited", "poll", "sleep"} =>
          timestamp = 1111111111
    /\ cycle.ran => cycle.from_date = 1111111111

\* the third or a later cycle, a duplicate, after a cycle that sent
C15_Witness ==
    /\ pc = "sleep" /\ ncycles >= 3
    /\ cycle.caught.type = "SendingError"
    /\ Len(prev1.sends) = 1
    /\ cycle.from_date = 1111111111

\* what may follow the first record in a 'homeworks' list: a record without
\* a name and with an unknown status, a well-formed record with a verdict of
\* its own, entries that are not records at all
OtherRecords ==
    {<<TailRecord>>,
     <<Homework("HW1", "rejected"), TailRecord>>,
     <<Str("homework_name"), None>>}

WithRecords(first, others) ==
    Response(200, Dict([homeworks |-> List(<<first>> \o others)]))

\* C16: two valid responses whose 'homeworks' lists start with the same
\* record lead, from the same notification state, to the same composed
\* message, the same send attempts and the same notification state,
\* whatever follows the first record; only the first record reaches
\* parse_status.
C16_FirstRecordOnly ==
    /\ pc = "poll" =>
          \A first \in FirstRecords, tg \in TgOutcomes :
              \A alone \in {CycleWith(WithRecords(first, <<>>), tg)} :
                  \A others \in OtherRecords :
                      \A longer \in {CycleWith(WithRecords(first, others), tg)} :
                          /\ longer.E.composed = alone.E.composed
                          /\ longer.E.sends = alone.E.sends
                          /\ longer.E.heap[longer.E.previous_status]
                               = alone.E.heap[alone.E.previous_status]
                          /\ longer.E.heap[longer.E.current_status]
                               = alone.E.heap[alone.E.current_status]
                          /\ longer.caught = alone.caught
                          /\ longer.exc = alone.exc
                          /\ longer.E.parsed = <<first>>
    /\ (cycle.ran /\ Validated(reply, cycle.from_date).type = "list"
        /\ Len(Validated(reply, cycle.from_date).value) > 1) =>
          cycle.parsed = <<Validated(reply, cycle.from_date).value[1]>>

\* a list of two records: the first has a verdict, which was sent, the
\* second has neither a name nor a known status
C16_Witness ==
    /\ cycle.ran
    /\ reply = WithRecords(Homework("HW1", "approved"), <<TailRecord>>)
    /\ cycle.parsed = <<Homework("HW1", "approved")>>
    /\ cycle.caught = NoExc
    /\ Sent(cycle) = <<Str(StatusMessage(Str("HW1"), VerdictText("approved")))>>

\* C17: a poll cycle makes at most one send attempt.  It composes one
\* message and a send, if any, is of that message: the 'no homework' message
\* is sent from check_homeworks and a status message from main, both in
\* cycles no handler is entered in, and the failure message from the generic
\* handler, in cycles that made no send before it.
C17_OneSendPerCycle ==
    cycle.ran =>
        /\ Len(cycle.sends) <= 1
        /\ Len(cycle.composed) = 1
        /\ \A i \in DOMAIN cycle.sends :
              cycle.sends[i].message = cycle.composed[1]
        /\ (cycle.sends /= <<>>
            /\ cycle.composed[1] \in StatusMessages \cup {NoHomework}) =>
              cycle.caught = NoExc
        /\ (cycle.caught /= NoExc /\ cycle.caught.type /= "SendingError") =>
              /\ cycle.composed = <<Str(FailureMessage(cycle.caught))>>
              /\ cycle.composed[1] \notin StatusMessages \cup {NoHomework}
        /\ cycle.composed[1] = NoHomework => cycle.parsed = <<>>

\* the one send of the 'no homework' message failed in the messaging API and
\* no failure message followed it
C17_Witness ==
    /\ cycle.ran /\ pc = "sleep"
    /\ Len(cycle.sends) = 1 /\ ~cycle.sends[1].delivered
    /\ cycle.sends[1].message = NoHomework
    /\ cycle.caught = NoExc
    /\ cycle.composed = <<NoHomework>>

\* C18: whenever the loop is at its sleep, current_status and previous_status
\* are equal and hold exactly the message composed in the cycle that just
\* ended.  They are two dict objects at all times, so the write of the next
\* cycle into current_status leaves previous_status as it was: a cycle sends
\* exactly when its message differs from what previous_status held before it.
C18_StatusesAgreeAtSleep ==
    /\ current_status /= previous_status
    /\ pc = "sleep" =>
          /\ Len(cycle.composed) = 1
          /\ heap[current_status] = Holding(cycle.composed[1])
          /\ heap[previous_status] = Holding(cycle.composed[1])
          /\ heap[current_status] = heap[previous_status]
    /\ cycle.ran =>
          (cycle.sends /= <<>> <=> Holding(cycle.composed[1]) /= cycle.before)
    /\ (cycle.ran /\ prev1.ran) =>
          (cycle.sends /= <<>> <=> cycle.composed /= prev1.composed)

\* a failure message replaced an earlier message in both dicts
C18_Witness ==
    /\ pc = "sleep" /\ prev1.ran
    /\ cycle.caught.type = "ConnectionError"
    /\ cycle.before /= EmptyDict
    /\ Len(cycle.sends) = 1
    /\ heap[current_status] = Holding(Str("Sboi v rabote programmy Connection error"))
    /\ heap[previous_status] = heap[current_status]
    /\ current_status /= previous_status

\* C19: the first poll cycle after startup makes exactly one send attempt,
\* whatever the network returns and whether or not the messaging API accepts
\* the send: the notification state is empty when it starts and the message
\* it composes is not empty.
C19_FirstCycleSends ==
    /\ (pc = "poll" /\ ncycles = 0) =>
          /\ NotificationState = EmptyDict
          /\ \A net \in NetOutcomes, tg \in TgOutcomes :
                \A m \in {CycleWith(net, tg)} :
                    /\ Len(m.E.sends) = 1
                    /\ Len(m.E.composed) = 1
                    /\ m.E.composed[1].value /= ""
                    /\ m.E.sends[1].message = m.E.composed[1]
    /\ ncycles = 1 =>
          /\ cycle.before = EmptyDict
          /\ Len(cycle.sends) = 1
          /\ Sent(cycle) = cycle.composed

\* the first cycle got a record without a name and sent the failure message
C19_Witness ==
    /\ ncycles = 1 /\ pc = "sleep"
    /\ cycle.caught = MissingNameError
    /\ Sent(cycle) = <<Str("Sboi v rabote programmy 'Otvet ne soderzhit klyuch \"homework_name\"'")>>
====
